---- MODULE Spec2Model ----
(***************************************************************************)
(* torch::utils::Future<T> (torch/csrc/utils/future.h): a single-          *)
(* assignment cell completed by markCompleted / setError, observed by      *)
(* wait / waitNoThrow / completed / hasError / error and by callbacks      *)
(* registered with addCallback.  Every thread runs a stack of frames; a    *)
(* frame is one activation of a member function or of a callback, and its  *)
(* pc names the statement it executes next.  One action is one statement   *)
(* (or one mutex-protected group no other thread can observe apart).       *)
(***************************************************************************)
EXTENDS Integers, Sequences, FiniteSets, TLC

\* ---- bounds of the model -------------------------------------------------
NThreads == 3        \* threads sharing the cell; each calls one member function
MaxCallbacks == 2    \* callbacks registered by top-level addCallback calls
MaxValue == 1        \* values of T are 0..MaxValue
MaxMsg == 1          \* error messages are 0..MaxMsg (0 is the empty string)

Threads == 1..NThreads
Values == 0..MaxValue
Msgs == 0..MaxMsg

\* c10::optional<FutureError>: absent, or present with a message.
NoError == [present |-> FALSE, msg |-> 0]
FutureError(m) == [present |-> TRUE, msg |-> m]

\* What a callback does when it runs: return, throw, or call one member
\* function of the same cell and then return.
CallbackKinds == {"ret", "throw", "markCompleted", "setError", "addCallback"}
NoCb == [id |-> 0, kind |-> "ret", owner |-> 0]

WaitOps == {"wait", "waitNoThrow"}
CompleteOps == {"markCompleted", "setError"}
QueryOps == {"completed", "hasError", "error"}
MemberOps == WaitOps \cup CompleteOps \cup QueryOps \cup {"addCallback", "attachRecordFunction"}

VARIABLES
  mutex,        \* mutex_: 0 when free, else the thread that owns it
  completed,    \* completed_
  value,        \* value_
  error,        \* error_
  callbacks,    \* callbacks_
  rf,           \* rf_ is non-null
  stack,        \* per thread: the frames of the calls in progress
  ret,          \* per thread: how its latest call ended
  log,          \* history: the callback invocations so far, in order
  drained,      \* history: the batch taken by the swap of callbacks_
  valueStored,  \* history: value_ was written by the constructor or line 64
  initValue,    \* history: the content of value_ after construction
  ctorValue,    \* history: the cell was built by Future(T value)
  rfEnds,       \* history: number of rf_->end() calls
  broadcasts,   \* history: number of finished_cv_.notify_all() calls
  nextCb        \* next unused callback identity

cell == <<mutex, completed, value, error, callbacks, rf>>
hist == <<log, drained, valueStored, initValue, ctorValue, rfEnds, broadcasts, nextCb>>
vars == <<mutex, completed, value, error, callbacks, rf, stack, ret, log, drained,
          valueStored, initValue, ctorValue, rfEnds, broadcasts, nextCb>>

\* How a call ended: op is the function that returned or threw and depth its
\* position on the stack; top and arg are the thread's own call and its argument;
\* v, b, err carry the returned value and cb the callback of an addCallback.
NoRet == [op |-> "none", top |-> "none", arg |-> 0, depth |-> 0, kind |-> "none",
          v |-> 0, b |-> FALSE, err |-> NoError, cb |-> NoCb]

Frame(op, pc, v, cb) == [op |-> op, pc |-> pc, v |-> v, cb |-> cb, cbs |-> <<>>, i |-> 1]

\* ---- frames --------------------------------------------------------------
Top(t) == stack[t][Len(stack[t])]
At(t, op, pc) == stack[t] # <<>> /\ Top(t).op = op /\ Top(t).pc = pc
Goto(t, pc) == stack' = [stack EXCEPT ![t][Len(stack[t])].pc = pc]
WithTop(t, f) == [stack[t] EXCEPT ![Len(stack[t])] = f]
Popped(t) == SubSeq(stack[t], 1, Len(stack[t]) - 1)

\* A result record of a call of op made above the frames base, and of the call
\* on top of t's stack.
ResultOf(base, op, v, c, kind) ==
  [NoRet EXCEPT !.op = op, !.top = IF base = <<>> THEN op ELSE base[1].op,
                !.arg = IF base = <<>> THEN v ELSE base[1].v,
                !.depth = Len(base) + 1, !.kind = kind, !.cb = c]
Result(t, kind) == ResultOf(Popped(t), Top(t).op, Top(t).v, Top(t).cb, kind)

\* The call on top of t's stack returns r to its caller.
Return(t, r) ==
  /\ stack' = [stack EXCEPT ![t] = Popped(t)]
  /\ ret' = [ret EXCEPT ![t] = r]

\* The call on top of t's stack throws r.  No frame of this class catches, and
\* a callback is modelled as not catching either, so the exception leaves every
\* frame of the thread; the only destructor with an effect is the unique_lock
\* of the throwing frame, which the throwing action accounts for.
Throw(t, r) ==
  /\ stack' = [stack EXCEPT ![t] = <<>>]
  /\ ret' = [ret EXCEPT ![t] = r]

\* The frame on top of t's stack moves to pc and calls callback c with
\* (value_, error_).
Invoke(t, c, pc, mode) ==
  /\ stack' = [stack EXCEPT ![t] =
                 Append(WithTop(t, [Top(t) EXCEPT !.pc = pc, !.i = @ + 1]),
                        Frame("callback", "body", 0, c))]
  /\ log' = Append(log, [cb |-> c, thread |-> t, v |-> value, err |-> error, mode |-> mode])

\* finished_cv_.notify_all(): every thread blocked in the condition variable
\* becomes runnable and has to re-acquire the mutex.
NotifyAll(s) ==
  [u \in Threads |->
     IF s[u] # <<>> /\ s[u][Len(s[u])].pc = "blocked"
     THEN [s[u] EXCEPT ![Len(s[u])].pc = "relock"]
     ELSE s[u]]

\* ---- construction --------------------------------------------------------
\* Future() = default: value_ is default-initialized, whatever that yields for T.
ConstructEmpty(v) ==
  /\ completed = FALSE /\ value = v /\ valueStored = FALSE /\ ctorValue = FALSE

\* Variant: the constructor stores the value but leaves completed_ false.
ConstructWithValue_Incomplete(v) ==
  /\ completed = FALSE /\ value = v /\ valueStored = TRUE /\ ctorValue = TRUE

\* Future(T value)
ConstructWithValue(v) ==
  /\ completed = TRUE /\ value = v /\ valueStored = TRUE /\ ctorValue = TRUE

Init ==
  /\ \E v \in Values : ConstructEmpty(v) \/ ConstructWithValue(v)
  /\ initValue = value
  /\ mutex = 0 /\ error = NoError /\ callbacks = <<>> /\ rf = FALSE
  /\ stack = [t \in Threads |-> <<>>]
  /\ ret = [t \in Threads |-> NoRet]
  /\ log = <<>> /\ drained = <<>>
  /\ rfEnds = 0 /\ broadcasts = 0 /\ nextCb = 1

\* ---- calling a member function --------------------------------------------
\* Entering a function is invisible to the other threads until its first
\* statement that touches the cell, so a call and that statement are one step.
\* base is the caller's stack: empty for a call made by the thread itself, the
\* frames up to the running callback for a call made by a callback.
LockingOps == WaitOps \cup CompleteOps \cup {"addCallback"}

\* Variant: the function runs without taking the mutex.
LockCall_NoMutex(t, base, op, v, c) ==
  /\ op \in LockingOps
  /\ stack' = [stack EXCEPT ![t] =
                 Append(base, Frame(op, IF op \in WaitOps THEN "pred" ELSE "check", v, c))]
  /\ UNCHANGED <<mutex, completed, value, error, callbacks, rf, ret>>

\* std::unique_lock<std::mutex> lock(mutex_) at lines 40, 50, 61, 86 and 122
LockCall(t, base, op, v, c) ==
  /\ op \in LockingOps
  /\ mutex = 0
  /\ mutex' = t
  /\ stack' = [stack EXCEPT ![t] =
                 Append(base, Frame(op, IF op \in WaitOps THEN "pred" ELSE "check", v, c))]
  /\ UNCHANGED <<completed, value, error, callbacks, rf, ret>>

\* lines 106-108: return completed_ (an atomic load, no mutex)
completedCall(t, base, op) ==
  /\ op = "completed"
  /\ stack' = [stack EXCEPT ![t] = base]
  /\ ret' = [ret EXCEPT ![t] = [ResultOf(base, op, 0, NoCb, "returned") EXCEPT !.b = completed]]
  /\ UNCHANGED cell

\* Variant: hasError reads error_ without taking the mutex.
hasErrorCall_NoLock(t, base, op) ==
  /\ op = "hasError"
  /\ stack' = [stack EXCEPT ![t] = base]
  /\ ret' = [ret EXCEPT ![t] = [ResultOf(base, op, 0, NoCb, "returned") EXCEPT !.b = error.present]]
  /\ UNCHANGED cell

\* lines 110-113: lock, return error_ ? true : false, unlock on exit
hasErrorCall(t, base, op) ==
  /\ op = "hasError"
  /\ mutex = 0
  /\ stack' = [stack EXCEPT ![t] = base]
  /\ ret' = [ret EXCEPT ![t] = [ResultOf(base, op, 0, NoCb, "returned") EXCEPT !.b = error.present]]
  /\ UNCHANGED cell

\* lines 115-118: lock, return a copy of error_, unlock on exit
errorCall(t, base, op) ==
  /\ op = "error"
  /\ mutex = 0
  /\ stack' = [stack EXCEPT ![t] = base]
  /\ ret' = [ret EXCEPT ![t] = [ResultOf(base, op, 0, NoCb, "returned") EXCEPT !.err = error]]
  /\ UNCHANGED cell

\* lines 135-138: rf_ = std::move(rf)
attachRecordFunctionCall(t, base, op) ==
  /\ op = "attachRecordFunction"
  /\ rf' = TRUE
  /\ stack' = [stack EXCEPT ![t] = base]
  /\ ret' = [ret EXCEPT ![t] = ResultOf(base, op, 0, NoCb, "returned")]
  /\ UNCHANGED <<mutex, completed, value, error, callbacks>>

Enter(t, base, op, v, c) ==
  \/ LockCall(t, base, op, v, c)
  \/ completedCall(t, base, op)
  \/ hasErrorCall(t, base, op)
  \/ errorCall(t, base, op)
  \/ attachRecordFunctionCall(t, base, op)

Args(op) == IF op = "markCompleted" THEN Values ELSE IF op = "setError" THEN Msgs ELSE {0}

\* The cell keeps no per-thread state, so a thread that calls twice behaves
\* like two threads calling one after the other: every thread makes one call.
Started(t) == stack[t] # <<>> \/ ret[t].kind # "none"

\* Interchangeable threads S are numbered in the order of their calls.
InOrder(t, S) == \A u \in S : u < t => Started(u)

\* Thread t calls op(v), or addCallback of a new callback of the given kind.
Call(t, op, v, kind) ==
  /\ ~Started(t)
  /\ v \in Args(op)
  /\ IF op = "addCallback"
     THEN /\ nextCb <= MaxCallbacks
          \* a callback that registers another one holds that one's identity too
          /\ nextCb' = nextCb + (IF kind = "addCallback" THEN 2 ELSE 1)
          /\ Enter(t, <<>>, op, v, [id |-> nextCb, kind |-> kind, owner |-> t])
     ELSE /\ kind = "ret"
          /\ nextCb' = nextCb
          /\ Enter(t, <<>>, op, v, NoCb)
  /\ UNCHANGED <<log, drained, valueStored, initValue, ctorValue, rfEnds, broadcasts>>

\* ---- wait / waitNoThrow ---------------------------------------------------
\* finished_cv_.wait(lock, [this] { return completed_.load(); }):
\* while the predicate is false, release the mutex and block; a thread that was
\* notified (or woke spuriously) re-acquires the mutex and tests again.
WaitPredicate(t, op) ==
  /\ At(t, op, "pred")
  /\ IF completed
     THEN Goto(t, "ret") /\ mutex' = mutex
     ELSE Goto(t, "blocked") /\ mutex' = 0
  /\ UNCHANGED <<completed, value, error, callbacks, rf, ret, hist>>

\* A blocked thread may wake without a notification (spurious wakeup).
SpuriousWakeup(t) ==
  /\ stack[t] # <<>> /\ Top(t).op \in WaitOps /\ Top(t).pc = "blocked"
  /\ Goto(t, "relock")
  /\ UNCHANGED <<cell, ret, hist>>

\* Variant: the wait does not test the predicate again after waking up.
Relock_NoRetest(t) ==
  /\ stack[t] # <<>> /\ Top(t).op \in WaitOps /\ Top(t).pc = "relock"
  /\ mutex = 0
  /\ mutex' = t
  /\ Goto(t, "ret")
  /\ UNCHANGED <<completed, value, error, callbacks, rf, ret, hist>>

Relock(t) ==
  /\ stack[t] # <<>> /\ Top(t).op \in WaitOps /\ Top(t).pc = "relock"
  /\ mutex = 0
  /\ mutex' = t
  /\ Goto(t, "pred")
  /\ UNCHANGED <<completed, value, error, callbacks, rf, ret, hist>>

waitPredicate(t) == WaitPredicate(t, "wait")

\* lines 43-46: throw *error_ or return value_; the lock is released on exit
waitReturn(t) ==
  /\ At(t, "wait", "ret")
  /\ mutex' = 0
  /\ IF error.present
     THEN Throw(t, [Result(t, "AsyncFailure") EXCEPT !.err = error])
     ELSE Return(t, [Result(t, "returned") EXCEPT !.v = value])
  /\ UNCHANGED <<completed, value, error, callbacks, rf, hist>>

waitNoThrowPredicate(t) == WaitPredicate(t, "waitNoThrow")

\* line 52: return value_
waitNoThrowReturn(t) ==
  /\ At(t, "waitNoThrow", "ret")
  /\ mutex' = 0
  /\ Return(t, [Result(t, "returned") EXCEPT !.v = value])
  /\ UNCHANGED <<completed, value, error, callbacks, rf, hist>>

\* ---- markCompleted -------------------------------------------------------

\* Variant: a failed check rolls the cell back to incomplete before throwing.
markCompletedCheck_Rollback(t) ==
  /\ At(t, "markCompleted", "check")
  /\ IF completed
     THEN Throw(t, Result(t, "DoubleComplete")) /\ mutex' = 0 /\ completed' = FALSE
     ELSE Goto(t, "value") /\ UNCHANGED <<mutex, ret, completed>>
  /\ UNCHANGED <<value, error, callbacks, rf, hist>>

\* Variant: the TORCH_CHECK is missing.
markCompletedCheck_NoCheck(t) ==
  /\ At(t, "markCompleted", "check")
  /\ Goto(t, "value")
  /\ UNCHANGED <<mutex, ret, completed, value, error, callbacks, rf, hist>>

\* Variant: completed_ is published before value_ is stored.
markCompletedCheck_FlagFirst(t) ==
  /\ At(t, "markCompleted", "check")
  /\ IF completed
     THEN Throw(t, Result(t, "DoubleComplete")) /\ mutex' = 0 /\ completed' = completed
     ELSE Goto(t, "value") /\ completed' = TRUE /\ UNCHANGED <<mutex, ret>>
  /\ UNCHANGED <<value, error, callbacks, rf, hist>>

\* line 62: TORCH_CHECK(!completed())
markCompletedCheck(t) ==
  /\ At(t, "markCompleted", "check")
  /\ IF completed
     THEN Throw(t, Result(t, "DoubleComplete")) /\ mutex' = 0
     ELSE Goto(t, "value") /\ UNCHANGED <<mutex, ret>>
  /\ UNCHANGED <<completed, value, error, callbacks, rf, hist>>

\* line 64: value_ = std::move(value)
markCompletedValue(t) ==
  /\ At(t, "markCompleted", "value")
  /\ value' = Top(t).v
  /\ valueStored' = TRUE
  /\ Goto(t, "flag")
  /\ UNCHANGED <<mutex, completed, error, callbacks, rf, ret, log, drained, initValue,
                 ctorValue, rfEnds, broadcasts, nextCb>>

\* line 65: completed_ = true
\* Variant: the mutex is released as soon as completed_ is set, before the swap.
markCompletedFlag_Unlock(t) ==
  /\ At(t, "markCompleted", "flag")
  /\ completed' = TRUE
  /\ mutex' = 0
  /\ Goto(t, "swap")
  /\ UNCHANGED <<value, error, callbacks, rf, ret, hist>>

markCompletedFlag(t) ==
  /\ At(t, "markCompleted", "flag")
  /\ completed' = TRUE
  /\ Goto(t, "swap")
  /\ UNCHANGED <<mutex, value, error, callbacks, rf, ret, hist>>

\* Variant: the batch is a copy of the queue, which keeps its callbacks.
markCompletedSwap_Copy(t) ==
  /\ At(t, "markCompleted", "swap")
  /\ stack' = [stack EXCEPT ![t] = WithTop(t, [Top(t) EXCEPT !.pc = "unlock", !.cbs = callbacks])]
  /\ drained' = callbacks
  /\ UNCHANGED <<cell, ret, log, valueStored, initValue, ctorValue, rfEnds, broadcasts, nextCb>>

\* lines 69-70: std::vector<Callback> cbs; cbs.swap(callbacks_)
markCompletedSwap(t) ==
  /\ At(t, "markCompleted", "swap")
  /\ stack' = [stack EXCEPT ![t] = WithTop(t, [Top(t) EXCEPT !.pc = "unlock", !.cbs = callbacks])]
  /\ callbacks' = <<>>
  /\ drained' = callbacks
  /\ UNCHANGED <<mutex, completed, value, error, rf, ret, log, valueStored, initValue,
                 ctorValue, rfEnds, broadcasts, nextCb>>

\* Variant: the handle is ended inside the critical section, before the unlock.
markCompletedUnlock_End(t) ==
  /\ At(t, "markCompleted", "unlock")
  /\ mutex' = 0
  /\ rfEnds' = IF rf THEN rfEnds + 1 ELSE rfEnds
  /\ Goto(t, "end")
  /\ UNCHANGED <<completed, value, error, callbacks, rf, ret, log, drained, valueStored,
                 initValue, ctorValue, broadcasts, nextCb>>

\* line 71: lock.unlock()
markCompletedUnlock(t) ==
  /\ At(t, "markCompleted", "unlock")
  /\ mutex' = 0
  /\ Goto(t, "end")
  /\ UNCHANGED <<completed, value, error, callbacks, rf, ret, hist>>

\* lines 73-75: if (rf_) rf_->end()
markCompletedEnd(t) ==
  /\ At(t, "markCompleted", "end")
  /\ rfEnds' = IF rf THEN rfEnds + 1 ELSE rfEnds
  /\ Goto(t, "loop")
  /\ UNCHANGED <<cell, ret, log, drained, valueStored, initValue, ctorValue, broadcasts, nextCb>>

\* Variant: the batch is walked from its last callback to its first.
markCompletedDispatch_Reverse(t) ==
  /\ At(t, "markCompleted", "loop")
  /\ Top(t).i <= Len(Top(t).cbs)
  /\ Invoke(t, Top(t).cbs[Len(Top(t).cbs) + 1 - Top(t).i], "loop", "batch")
  /\ UNCHANGED <<cell, ret, drained, valueStored, initValue, ctorValue, rfEnds, broadcasts,
                 nextCb>>

\* lines 79-81: for (auto& callback : cbs) callback(value_, error_)
markCompletedDispatch(t) ==
  /\ At(t, "markCompleted", "loop")
  /\ Top(t).i <= Len(Top(t).cbs)
  /\ Invoke(t, Top(t).cbs[Top(t).i], "loop", "batch")
  /\ UNCHANGED <<cell, ret, drained, valueStored, initValue, ctorValue, rfEnds, broadcasts, nextCb>>

\* Variant: the function returns without notify_all().
markCompletedNotify_NoNotify(t) ==
  /\ At(t, "markCompleted", "loop")
  /\ Top(t).i > Len(Top(t).cbs)
  /\ Return(t, Result(t, "returned"))
  /\ UNCHANGED <<cell, hist>>

\* line 82: finished_cv_.notify_all(), then the function returns
markCompletedNotify(t) ==
  /\ At(t, "markCompleted", "loop")
  /\ Top(t).i > Len(Top(t).cbs)
  /\ broadcasts' = broadcasts + 1
  /\ stack' = [NotifyAll(stack) EXCEPT ![t] = Popped(t)]
  /\ ret' = [ret EXCEPT ![t] = Result(t, "returned")]
  /\ UNCHANGED <<cell, log, drained, valueStored, initValue, ctorValue, rfEnds, nextCb>>

\* ---- setError ------------------------------------------------------------

\* Variant: the TORCH_CHECK is missing.
setErrorCheck_NoCheck(t) ==
  /\ At(t, "setError", "check")
  /\ Goto(t, "error")
  /\ UNCHANGED <<mutex, ret, completed, value, error, callbacks, rf, hist>>

\* line 87: TORCH_CHECK(!completed())
setErrorCheck(t) ==
  /\ At(t, "setError", "check")
  /\ IF completed
     THEN Throw(t, Result(t, "DoubleComplete")) /\ mutex' = 0
     ELSE Goto(t, "error") /\ UNCHANGED <<mutex, ret>>
  /\ UNCHANGED <<completed, value, error, callbacks, rf, hist>>

\* line 89: error_ = FutureError(std::move(errorMsg))
setErrorError(t) ==
  /\ At(t, "setError", "error")
  /\ error' = FutureError(Top(t).v)
  /\ Goto(t, "flag")
  /\ UNCHANGED <<mutex, completed, value, callbacks, rf, ret, hist>>

\* line 90: completed_ = true
setErrorFlag(t) ==
  /\ At(t, "setError", "flag")
  /\ completed' = TRUE
  /\ Goto(t, "swap")
  /\ UNCHANGED <<mutex, value, error, callbacks, rf, ret, hist>>

\* lines 94-95: std::vector<Callback> cbs; cbs.swap(callbacks_)
setErrorSwap(t) ==
  /\ At(t, "setError", "swap")
  /\ stack' = [stack EXCEPT ![t] = WithTop(t, [Top(t) EXCEPT !.pc = "unlock", !.cbs = callbacks])]
  /\ callbacks' = <<>>
  /\ drained' = callbacks
  /\ UNCHANGED <<mutex, completed, value, error, rf, ret, log, valueStored, initValue,
                 ctorValue, rfEnds, broadcasts, nextCb>>

\* Variant: the waiters are notified right after the unlock, before the loop.
setErrorUnlock_Notify(t) ==
  /\ At(t, "setError", "unlock")
  /\ mutex' = 0
  /\ broadcasts' = broadcasts + 1
  /\ stack' = [NotifyAll(stack) EXCEPT ![t] = WithTop(t, [Top(t) EXCEPT !.pc = "loop"])]
  /\ UNCHANGED <<completed, value, error, callbacks, rf, ret, log, drained, valueStored,
                 initValue, ctorValue, rfEnds, nextCb>>

\* line 96: lock.unlock()
setErrorUnlock(t) ==
  /\ At(t, "setError", "unlock")
  /\ mutex' = 0
  /\ Goto(t, "loop")
  /\ UNCHANGED <<completed, value, error, callbacks, rf, ret, hist>>

\* lines 100-102: for (auto& callback : cbs) callback(value_, error_)
setErrorDispatch(t) ==
  /\ At(t, "setError", "loop")
  /\ Top(t).i <= Len(Top(t).cbs)
  /\ Invoke(t, Top(t).cbs[Top(t).i], "loop", "batch")
  /\ UNCHANGED <<cell, ret, drained, valueStored, initValue, ctorValue, rfEnds, broadcasts, nextCb>>

\* line 103: finished_cv_.notify_all(), then the function returns
setErrorNotify(t) ==
  /\ At(t, "setError", "loop")
  /\ Top(t).i > Len(Top(t).cbs)
  /\ broadcasts' = broadcasts + 1
  /\ stack' = [NotifyAll(stack) EXCEPT ![t] = Popped(t)]
  /\ ret' = [ret EXCEPT ![t] = Result(t, "returned")]
  /\ UNCHANGED <<cell, log, drained, valueStored, initValue, ctorValue, rfEnds, nextCb>>

\* ---- addCallback ---------------------------------------------------------

\* Variant: completed() is never tested, the callback is always appended.
addCallbackCheck_NoTest(t) ==
  /\ At(t, "addCallback", "check")
  /\ mutex' = 0
  /\ callbacks' = Append(callbacks, Top(t).cb)
  /\ Return(t, [Result(t, "returned") EXCEPT !.b = FALSE])
  /\ UNCHANGED <<completed, value, error, rf, hist>>

\* lines 123-124 and 128-129: a completed cell releases the mutex and goes on to
\* call the callback; otherwise the callback is appended and the function
\* returns, releasing the mutex
\* Variant: a completed cell calls the callback without unlocking first.
addCallbackCheck_NoUnlock(t) ==
  /\ At(t, "addCallback", "check")
  /\ IF completed
     THEN Goto(t, "call") /\ UNCHANGED <<mutex, callbacks, ret>>
     ELSE /\ mutex' = 0
          /\ callbacks' = Append(callbacks, Top(t).cb)
          /\ Return(t, [Result(t, "returned") EXCEPT !.b = FALSE])
  /\ UNCHANGED <<completed, value, error, rf, hist>>

addCallbackCheck(t) ==
  /\ At(t, "addCallback", "check")
  /\ mutex' = 0
  /\ IF completed
     THEN Goto(t, "call") /\ UNCHANGED <<callbacks, ret>>
     ELSE /\ callbacks' = Append(callbacks, Top(t).cb)
          /\ Return(t, [Result(t, "returned") EXCEPT !.b = FALSE])
  /\ UNCHANGED <<completed, value, error, rf, hist>>

\* line 125: callback(value_, error_)
addCallbackInvoke(t) ==
  /\ At(t, "addCallback", "call")
  /\ Invoke(t, Top(t).cb, "return", "inplace")
  /\ UNCHANGED <<cell, ret, drained, valueStored, initValue, ctorValue, rfEnds, broadcasts, nextCb>>

\* Variant: the return is missing and control falls through to the push_back.
addCallbackReturn_FallThrough(t) ==
  /\ At(t, "addCallback", "return")
  /\ callbacks' = Append(callbacks, Top(t).cb)
  /\ Return(t, [Result(t, "returned") EXCEPT !.b = TRUE])
  /\ UNCHANGED <<mutex, completed, value, error, rf, hist>>

\* line 126: return
addCallbackReturn(t) ==
  /\ At(t, "addCallback", "return")
  /\ Return(t, [Result(t, "returned") EXCEPT !.b = TRUE])
  /\ UNCHANGED <<cell, hist>>

\* ---- callbacks (user code run at lines 80, 101 and 125) -------------------
callbackReturn(t) ==
  /\ \/ At(t, "callback", "body") /\ Top(t).cb.kind = "ret"
     \/ At(t, "callback", "after")
  /\ stack' = [stack EXCEPT ![t] = Popped(t)]
  /\ UNCHANGED <<cell, ret, hist>>

\* Variant: the exception of a callback is swallowed by its caller.
callbackThrow_Caught(t) ==
  /\ At(t, "callback", "body") /\ Top(t).cb.kind = "throw"
  /\ stack' = [stack EXCEPT ![t] = Popped(t)]
  /\ UNCHANGED <<cell, ret, hist>>

callbackThrow(t) ==
  /\ At(t, "callback", "body") /\ Top(t).cb.kind = "throw"
  /\ Throw(t, Result(t, "CallbackError"))
  /\ UNCHANGED <<cell, hist>>

\* The callback calls a member function of the cell it was registered on.
callbackCall(t) ==
  /\ At(t, "callback", "body")
  /\ Top(t).cb.kind \in MemberOps
  /\ LET op == Top(t).cb.kind
         c == IF op = "addCallback"
              THEN [id |-> Top(t).cb.id + 1, kind |-> "ret", owner |-> t]
              ELSE NoCb
     IN \E v \in Args(op) : Enter(t, WithTop(t, [Top(t) EXCEPT !.pc = "after"]), op, v, c)
  /\ UNCHANGED hist

\* ---- the specifications ---------------------------------------------------
\* Any thread calls any member function; callbacks return, throw, or call
\* markCompleted, setError or addCallback on the cell.
AnyCall(t) ==
  /\ InOrder(t, Threads)
  /\ \E op \in MemberOps, v \in Values \cup Msgs, kind \in CallbackKinds : Call(t, op, v, kind)

Run(t) ==
  \/ waitPredicate(t) \/ waitReturn(t)
  \/ waitNoThrowPredicate(t) \/ waitNoThrowReturn(t)
  \/ Relock(t)
  \/ markCompletedCheck(t) \/ markCompletedValue(t)
  \/ markCompletedFlag(t) \/ markCompletedSwap(t) \/ markCompletedUnlock(t)
  \/ markCompletedEnd(t) \/ markCompletedDispatch(t) \/ markCompletedNotify(t)
  \/ setErrorCheck(t) \/ setErrorError(t) \/ setErrorFlag(t)
  \/ setErrorSwap(t) \/ setErrorUnlock(t) \/ setErrorDispatch(t) \/ setErrorNotify(t)
  \/ addCallbackCheck(t) \/ addCallbackInvoke(t) \/ addCallbackReturn(t)
  \/ callbackReturn(t)

Step(t) == AnyCall(t) \/ Run(t) \/ SpuriousWakeup(t) \/ callbackThrow(t) \/ callbackCall(t)

Next == \E t \in Threads : Step(t)

Spec == Init /\ [][Next]_vars

\* One producer and consumers on an empty cell: thread Producer calls
\* markCompleted or setError, every other thread calls wait, waitNoThrow or
\* addCallback of a callback that returns normally.  Scheduling is fair: a thread
\* that can take a step again and again eventually takes it (in particular a
\* thread waiting for the mutex gets it although others keep taking it).  A
\* spurious wakeup can happen but need not.
Producer == 1
Consumers == Threads \ {Producer}

RoleCall(t) ==
  IF t = Producer
  THEN \E op \in CompleteOps, v \in Values \cup Msgs : Call(t, op, v, "ret")
  ELSE /\ InOrder(t, Consumers)
       /\ \E op \in WaitOps \cup {"addCallback"} : Call(t, op, 0, "ret")

RoleStep(t) == RoleCall(t) \/ Run(t)

InitRoles == Init /\ ~ctorValue

NextRoles == \E t \in Threads : RoleStep(t) \/ SpuriousWakeup(t)

SpecRoles == InitRoles /\ [][NextRoles]_vars /\ \A t \in Threads : SF_vars(RoleStep(t))

\* Callbacks that call back into the cell: any thread calls markCompleted,
\* setError, wait, waitNoThrow or addCallback, and a registered callback calls
\* completed, hasError, error, wait, waitNoThrow or addCallback on the cell and
\* then returns (a wait that finds an error throws).
ReentrantKinds == QueryOps \cup WaitOps \cup {"addCallback"}

ReentrantCall(t) ==
  /\ InOrder(t, Threads)
  /\ \E op \in CompleteOps \cup WaitOps \cup {"addCallback"}, v \in Values \cup Msgs,
        kind \in ReentrantKinds \cup {"ret"} :
       /\ op = "addCallback" => kind \in ReentrantKinds
       /\ Call(t, op, v, kind)

ReentrantStep(t) == ReentrantCall(t) \/ Run(t) \/ callbackCall(t)

NextReentrant == \E t \in Threads : ReentrantStep(t)

SpecReentrant == Init /\ [][NextReentrant]_vars

\* A cell on which callbacks are already queued: threads that have since
\* returned registered one to MaxCallbacks callbacks, each of which returns or
\* throws, on an empty cell.  Any thread then calls markCompleted, setError,
\* wait, waitNoThrow or addCallback.
QueuedKinds == {"ret", "throw"}

Queued(kinds) == [i \in DOMAIN kinds |-> [id |-> i, kind |-> kinds[i], owner |-> 0]]

InitQueued ==
  /\ \E v \in Values : ConstructEmpty(v)
  /\ initValue = value
  /\ mutex = 0 /\ error = NoError /\ rf = FALSE
  /\ \E n \in 1..MaxCallbacks : \E kinds \in [1..n -> QueuedKinds] :
       callbacks = Queued(kinds) /\ nextCb = n + 1
  /\ stack = [t \in Threads |-> <<>>]
  /\ ret = [t \in Threads |-> NoRet]
  /\ log = <<>> /\ drained = <<>>
  /\ rfEnds = 0 /\ broadcasts = 0

QueuedCall(t) ==
  /\ InOrder(t, Threads)
  /\ \E op \in CompleteOps \cup WaitOps \cup {"addCallback"}, v \in Values \cup Msgs,
        kind \in QueuedKinds :
       Call(t, op, v, kind)

QueuedStep(t) == QueuedCall(t) \/ Run(t) \/ SpuriousWakeup(t) \/ callbackThrow(t)

NextQueued == \E t \in Threads : QueuedStep(t)

SpecQueued == InitQueued /\ [][NextQueued]_vars

\* ==== properties ===========================================================
\* The call of thread t is op and has passed its TORCH_CHECK: it is (or was) the
\* completion that filled the cell.
PastCheck(t, op) ==
  \/ /\ stack[t] # <<>>
     /\ stack[t][1].op = op
     /\ stack[t][1].pc \notin {"check"}
  \/ /\ stack[t] = <<>>
     /\ ret[t].top = op
     /\ ~(ret[t].kind = "DoubleComplete" /\ ret[t].depth = 1)
\* ... and has set completed_
Published(t, op) ==
  PastCheck(t, op) /\ (stack[t] # <<>> => stack[t][1].pc \notin {"value", "error", "flag"})
ArgOf(t) == IF stack[t] # <<>> THEN stack[t][1].v ELSE ret[t].arg

AtCheck(t) == stack[t] # <<>> /\ Top(t).op \in CompleteOps /\ Top(t).pc = "check"

\* C1: completed_ never changes from true to false (so it changes from false to
\* true at most once), and once a call of completed() has returned true the
\* flag is true, so every later call returns true as well.
C1_CompletedMonotone ==
  /\ [][completed => completed']_vars
  /\ [](\A t \in Threads : (ret[t].op = "completed" /\ ret[t].b) => completed)

\* C1 witness: the flag went from false to true and a completed() call saw it.
C1_Witness ==
  /\ ~ctorValue /\ completed
  /\ \E t, u \in Threads :
       /\ ret[t].op = "completed" /\ ret[t].b
       /\ ret[u].op = "completed" /\ ~ret[u].b

\* C2: a markCompleted or setError that reaches its check on a completed cell
\* throws DoubleComplete, releases the mutex, and changes nothing of value_,
\* error_, completed_, callbacks_; it invokes no callback, does not call
\* rf_->end() and does not notify.
C2_DoubleCompleteFails ==
  [][\A t \in Threads :
       (AtCheck(t) /\ completed /\ stack'[t] # stack[t]) =>
         /\ ret'[t].kind = "DoubleComplete"
         /\ ret'[t].op = Top(t).op
         /\ stack'[t] = <<>>
         /\ mutex = t /\ mutex' = 0
         /\ UNCHANGED <<completed, value, error, callbacks, log, rfEnds, broadcasts, drained>>]_vars

\* C2 witness: a completion called from inside a callback of the dispatch batch
\* failed, and so did a completion called by another thread.
C2_Witness ==
  \E t, u \in Threads :
    /\ ret[t].kind = "DoubleComplete" /\ ret[t].depth = 3 /\ ret[t].top \in CompleteOps
    /\ ret[u].kind = "DoubleComplete" /\ ret[u].depth = 1

\* C3: in every state with completed_ true, exactly one of "value_ was stored"
\* and "error_ is present" holds; the outcome is written before the flag.
C3_ExactlyOneOutcome ==
  completed => (valueStored # error.present)

\* C3 witness: completed() returned true to a thread that does not hold the
\* mutex while the completing thread still holds it, for an error outcome.
C3_Witness ==
  /\ completed /\ error.present
  /\ \E t, u \in Threads :
       /\ mutex = u /\ At(u, "setError", "swap")
       /\ ret[t].op = "completed" /\ ret[t].b

\* What thread t observed agrees with the cell.
SeesOutcome(t) ==
  /\ (ret[t].op \in WaitOps /\ ret[t].kind = "returned") =>
       /\ ret[t].v = value
       /\ ret[t].op = "wait" => ~error.present
  /\ ret[t].kind = "AsyncFailure" =>
       /\ ret[t].op = "wait" /\ error.present /\ ret[t].err = error

\* C4: once completed_ is true, value_ and error_ never change; every wait
\* returned the stored value or threw the stored error, and every callback was
\* called with the stored (value_, error_).
C4_OutcomeImmutable ==
  /\ [][completed => (value' = value /\ error' = error)]_vars
  /\ [](/\ \A t \in Threads : SeesOutcome(t)
        /\ \A i \in 1..Len(log) : log[i].v = value /\ log[i].err = error)

\* C4 witness: a wait threw the stored error that a batch callback and an
\* in-place callback were called with.
C4_Witness ==
  /\ \E t \in Threads : ret[t].kind = "AsyncFailure"
  /\ \E i, j \in 1..Len(log) : log[i].mode = "batch" /\ log[j].mode = "inplace"

\* What the states show of the waits: a wait at its return statement, or past
\* it, has a completed cell, and the results agree with the argument of the
\* completion that published the outcome.
WaitResults ==
  /\ \A t \in Threads :
       (stack[t] # <<>> /\ Top(t).op \in WaitOps /\ Top(t).pc = "ret") => completed
  /\ \A t \in Threads : ret[t].op \in WaitOps => completed
  /\ \A p, t \in Threads :
       /\ Published(p, "setError") =>
            /\ error = FutureError(ArgOf(p))
            /\ ret[t].op = "wait" => (ret[t].kind = "AsyncFailure" /\ ret[t].err.msg = ArgOf(p))
            /\ ret[t].op = "waitNoThrow" => (ret[t].kind = "returned" /\ ret[t].v = initValue)
            /\ (ret[t].op = "error" /\ ret[t].err.present) => ret[t].err.msg = ArgOf(p)
       /\ Published(p, "markCompleted") =>
            /\ value = ArgOf(p) /\ ~error.present
            /\ ret[t].op \in WaitOps => (ret[t].kind = "returned" /\ ret[t].v = ArgOf(p))
            /\ ret[t].op = "hasError" => ~ret[t].b
            /\ ret[t].op = "error" => ~ret[t].err.present

\* A hasError() or error() that returns in this step, after a setError has
\* published its outcome, reports the stored error.
QueryAfterSetError(t) ==
  (ret'[t] # ret[t] /\ \E p \in Threads : Published(p, "setError")) =>
     /\ ret'[t].op = "hasError" => ret'[t].b
     /\ ret'[t].op = "error" => ret'[t].err = error

\* C5: wait and waitNoThrow return only when completed_ is true; after
\* setError(m) wait throws exactly m, error() yields m and waitNoThrow returns
\* the default-initialized value_; after markCompleted(v) both waits return v
\* and hasError() is false.
C5_WaitOutcome ==
  /\ []WaitResults
  /\ [][\A t \in Threads : QueryAfterSetError(t)]_vars

\* C5 witness: after setError(1) on a cell whose value_ was default-initialized
\* to 0, a wait threw message 1 and a waitNoThrow returned 0.
C5_Witness ==
  \E p, t, u \in Threads :
    /\ ret[p].op = "setError" /\ ret[p].kind = "returned" /\ ret[p].arg = 1
    /\ ret[t].op = "wait" /\ ret[t].kind = "AsyncFailure" /\ ret[t].err = FutureError(1)
    /\ ret[u].op = "waitNoThrow" /\ ret[u].kind = "returned" /\ ret[u].v = 0

\* Thread t is inside a wait or waitNoThrow call / has returned from one.
InWait(t) == stack[t] # <<>> /\ stack[t][1].op \in WaitOps
WaitDone(t) == stack[t] = <<>> /\ ret[t].top \in WaitOps

\* C6: with one producer that completes the cell and callbacks that return,
\* every wait and waitNoThrow call eventually returns, and returns once: a
\* thread that has returned stays returned with the same result.
C6_WaitersReturn ==
  /\ \A t \in Threads : InWait(t) ~> WaitDone(t)
  /\ [][\A t \in Threads : WaitDone(t) => (WaitDone(t)' /\ ret'[t] = ret[t])]_vars

\* C6 witness: a waiter is blocked in the condition variable while the cell is
\* completed, the mutex is released and the broadcast has not been sent yet.
C6_Witness ==
  \E t, p \in Threads :
    /\ InWait(t) /\ Top(t).pc = "blocked"
    /\ completed /\ mutex = 0 /\ broadcasts = 0
    /\ stack[p] # <<>> /\ stack[p][1].op \in CompleteOps /\ stack[p][1].pc = "loop"

\* ---- callbacks ------------------------------------------------------------
IsBatch(e) == e.mode = "batch"
CbsOf(es) == [i \in 1..Len(es) |-> es[i].cb]
\* The callbacks invoked by the completion path so far, in order.
Batch == CbsOf(SelectSeq(log, IsBatch))
IsPrefix(a, b) == Len(a) <= Len(b) /\ a = SubSeq(b, 1, Len(a))
\* Number of invocations of the callback with identity id.
Count(id) == Cardinality({i \in 1..Len(log) : log[i].cb.id = id})
Occurs(id, q) == Cardinality({i \in 1..Len(q) : q[i].id = id})
\* The completion of p has exited: it returned or an exception left it.
CompletionExited(p) ==
  /\ stack[p] = <<>> /\ ret[p].top \in CompleteOps
  /\ ~(ret[p].kind = "DoubleComplete" /\ ret[p].depth = 1)

\* C7 as stated: once the completion path has exited, it has invoked every
\* callback that was queued, once and in the order of the queue.
C7_EveryQueuedCallbackInvoked ==
  \A p \in Threads : CompletionExited(p) => Batch = drained

\* C7 as amended: the completion path invokes the queued callbacks on its own
\* thread, in the order of the queue, each at most once and with the stored
\* outcome; a completion that returns has invoked all of them, and one left by
\* an exception of a callback has invoked those up to that callback only.
C7_BatchInOrder ==
  /\ \A p \in Threads :
       /\ (stack[p] # <<>> /\ stack[p][1].op \in CompleteOps
             /\ stack[p][1].pc \in {"unlock", "end", "loop"}) =>
            Batch = SubSeq(drained, 1, stack[p][1].i - 1)
       /\ (CompletionExited(p) /\ ret[p].depth = 1) =>
            (ret[p].kind = "returned" /\ Batch = drained)
       /\ (CompletionExited(p) /\ ret[p].depth > 1) =>
            (IsPrefix(Batch, drained) /\ Batch # <<>>)
  /\ \A i \in 1..Len(log) : log[i].mode = "batch" =>
       \E p \in Threads, op \in CompleteOps :
         /\ Published(p, op) /\ log[i].thread = p
         /\ IF op = "markCompleted"
            THEN log[i].v = ArgOf(p) /\ log[i].err = NoError
            ELSE log[i].v = initValue /\ log[i].err = FutureError(ArgOf(p))

\* C7 witness: a setError returned after two callbacks had been queued.
C7_Witness ==
  \E p \in Threads :
    /\ ret[p].op = "setError" /\ ret[p].kind = "returned"
    /\ Len(drained) = 2 /\ Batch = drained

\* The frames of thread t.
FramesOf(t) == {stack[t][k] : k \in 1..Len(stack[t])}
\* The invocations of the callback with identity id.
Entries(id) == {i \in 1..Len(log) : log[i].cb.id = id}

\* C8: an addCallback that finds the cell completed does not append its
\* callback; it calls it once, on its own thread, with the stored
\* (value_, error_), and has done so when it returns.
C8_InPlaceCallback ==
  /\ \A t \in Threads : \A f \in FramesOf(t) :
       f.op = "addCallback" =>
         /\ f.pc = "call" =>
              completed /\ Count(f.cb.id) = 0 /\ Occurs(f.cb.id, callbacks) = 0
         /\ f.pc = "return" =>
              /\ Count(f.cb.id) = 1 /\ Occurs(f.cb.id, callbacks) = 0
              /\ \A i \in Entries(f.cb.id) : log[i].thread = t /\ log[i].mode = "inplace"
  /\ \A t \in Threads :
       (ret[t].op = "addCallback" /\ ret[t].kind = "returned" /\ ret[t].b) =>
         /\ Count(ret[t].cb.id) = 1 /\ Occurs(ret[t].cb.id, callbacks) = 0
         /\ \A i \in Entries(ret[t].cb.id) : log[i].thread = t /\ log[i].mode = "inplace"
  /\ \A i \in 1..Len(log) : log[i].mode = "inplace" =>
       /\ completed /\ log[i].v = value /\ log[i].err = error
       /\ log[i].thread = log[i].cb.owner
       /\ Count(log[i].cb.id) = 1
       /\ Occurs(log[i].cb.id, callbacks) = 0 /\ Occurs(log[i].cb.id, drained) = 0

\* C8 witness: after a setError, an addCallback called its callback in place
\* and returned.
C8_Witness ==
  \E t \in Threads :
    /\ error.present
    /\ ret[t].op = "addCallback" /\ ret[t].kind = "returned" /\ ret[t].b /\ ret[t].depth = 1
    /\ Count(ret[t].cb.id) = 1

\* Where a registered callback is: still with the addCallback that registers
\* it, in the queue, in a batch waiting for its turn, or invoked.
Registering(id) ==
  Cardinality({t \in Threads : \E f \in FramesOf(t) :
                 f.op = "addCallback" /\ f.cb.id = id /\ f.pc \in {"check", "call"}})
Waiting(id) ==
  Cardinality({t \in Threads : \E f \in FramesOf(t) :
                 /\ f.op \in CompleteOps
                 /\ \E k \in f.i..Len(f.cbs) : f.cbs[k].id = id})
AllDone == \A t \in Threads : Started(t) /\ stack[t] = <<>>

\* C9: with one producer and callbacks that return, every registered callback
\* is at all times in exactly one place and is never invoked twice; one invoked
\* by the batch was appended before the swap and runs on the producer's
\* thread, one invoked in place runs on its registering thread; when every call
\* has returned, every registered callback has been invoked exactly once.
C9_EachCallbackOnce ==
  /\ \A id \in 1..(nextCb - 1) :
       /\ Registering(id) + Occurs(id, callbacks) + Waiting(id) + Count(id) = 1
       /\ AllDone => Count(id) = 1
       /\ \A i \in Entries(id) :
            IF log[i].mode = "batch"
            THEN log[i].thread = Producer /\ Occurs(id, drained) = 1
            ELSE log[i].thread = log[i].cb.owner /\ Occurs(id, drained) = 0 /\ completed
  /\ \A i \in 1..Len(log) : log[i].cb.id \in 1..(nextCb - 1)

\* C9 witness: all calls have returned, one callback was invoked by the
\* producer's batch and another in place by its registering thread.
C9_Witness ==
  /\ AllDone
  /\ \E i, j \in 1..Len(log) :
       /\ log[i].mode = "batch" /\ log[i].thread = Producer
       /\ log[j].mode = "inplace" /\ log[j].thread # Producer

\* C10: a cell built by Future(T value) is completed without error from the
\* start: completed() is true, hasError() false, error() absent, the waits
\* return the constructor's value without blocking, addCallback calls its
\* callback in place with that value and no error, and every markCompleted and
\* setError fails as a double completion.
C10_ConstructedWithValue ==
  ctorValue =>
    /\ completed /\ ~error.present /\ value = initValue /\ callbacks = <<>>
    /\ drained = <<>> /\ broadcasts = 0
    /\ \A t \in Threads :
         /\ \A f \in FramesOf(t) :
              /\ f.pc \notin {"blocked", "relock"}
              /\ f.op \in CompleteOps => f.pc = "check"
              /\ f.op = "addCallback" => f.pc \in {"check", "call", "return"}
         /\ ret[t].op \in WaitOps => (ret[t].kind = "returned" /\ ret[t].v = initValue)
         /\ ret[t].op = "completed" => ret[t].b
         /\ ret[t].op = "hasError" => ~ret[t].b
         /\ ret[t].op = "error" => ret[t].err = NoError
         /\ ret[t].op = "addCallback" => ret[t].b
         /\ ret[t].op \in CompleteOps => ret[t].kind = "DoubleComplete"
    /\ \A i \in 1..Len(log) :
         log[i].mode = "inplace" /\ log[i].v = initValue /\ log[i].err = NoError

\* C10 witness: on a cell built with value 1, a wait returned 1, a callback was
\* called in place and a setError failed.
C10_Witness ==
  /\ ctorValue /\ initValue = 1
  /\ \E t, u, w \in Threads :
       /\ ret[t].op = "wait" /\ ret[t].kind = "returned" /\ ret[t].v = 1
       /\ ret[u].op = "addCallback" /\ ret[u].b /\ Count(ret[u].cb.id) = 1
       /\ ret[w].op = "setError" /\ ret[w].kind = "DoubleComplete"

\* A handle was attached before the call of thread p began: threads are
\* numbered in the order of their calls and attachRecordFunction is one step.
AttachedBefore(p) ==
  \E u \in Threads : u < p /\ ret[u].op = "attachRecordFunction"
\* The markCompleted of thread p has passed lines 73-75.
PastEnd(p) ==
  /\ PastCheck(p, "markCompleted")
  /\ stack[p] # <<>> => stack[p][1].pc \in {"loop"}

\* C11: rf_->end() is called only by a markCompleted that has passed the check
\* and released the mutex, before it has invoked a queued callback and before
\* any broadcast; with a handle attached before the completion, the call has
\* happened exactly once when markCompleted reaches its loop; setError and every
\* other operation leave the count alone, which never exceeds one.
C11_EndOnlyInMarkCompleted ==
  /\ [](rfEnds <= 1)
  /\ [](\A p \in Threads :
          /\ (AttachedBefore(p) /\ PastEnd(p)) => rfEnds = 1
          /\ (rfEnds = 1) => \A q \in Threads : ~PastCheck(q, "setError")
          /\ (stack[p] # <<>> /\ stack[p][1].op = "markCompleted"
                /\ stack[p][1].pc \notin {"check", "loop"}) => rfEnds = 0)
  /\ [][rfEnds' # rfEnds =>
          \E t \in Threads :
            /\ At(t, "markCompleted", "end") /\ Len(stack[t]) = 1
            /\ stack'[t] # stack[t]
            /\ rf /\ rfEnds = 0 /\ rfEnds' = 1
            /\ mutex # t /\ completed /\ callbacks = <<>>
            /\ Batch = <<>> /\ broadcasts = 0]_vars

\* C11 witness: a handle was attached, a callback queued, and a markCompleted
\* returned after ending the handle once and calling the callback.
C11_Witness ==
  \E p \in Threads :
    /\ AttachedBefore(p)
    /\ ret[p].op = "markCompleted" /\ ret[p].kind = "returned"
    /\ rfEnds = 1 /\ Len(drained) = 1 /\ Batch = drained /\ broadcasts = 1

C13_CompletedQueueEmpty == completed => callbacks = <<>>

\* Thread p is between setting completed_ and the swap (lines 65-70, 90-95).
BeforeSwap(p) ==
  /\ stack[p] # <<>> /\ Top(p).op \in CompleteOps /\ Top(p).pc = "swap"
  /\ mutex = p

\* C13 as amended: completed_ is true with a non-empty queue only while the
\* completing thread still holds the mutex between setting the flag and the
\* swap; the swap empties the queue in that critical section, and an append
\* happens only under the mutex with completed_ false.
C13_QueueEmptyAfterSwap ==
  /\ []((completed /\ callbacks # <<>>) => \E p \in Threads : BeforeSwap(p))
  /\ []((completed /\ mutex = 0) => callbacks = <<>>)
  /\ [][callbacks' # callbacks =>
          \/ \E t \in Threads :
               /\ At(t, "addCallback", "check") /\ mutex = t
               /\ ~completed /\ ~completed'
               /\ callbacks' = Append(callbacks, Top(t).cb)
          \/ \E p \in Threads :
               /\ BeforeSwap(p) /\ completed /\ callbacks' = <<>>
               /\ mutex' = p]_vars

\* C13 witness: the swap emptied a queue of one callback, the mutex is free
\* and a later addCallback ran its callback in place.
C13_Witness ==
  /\ completed /\ mutex = 0 /\ callbacks = <<>> /\ Len(drained) = 1
  /\ \E i \in 1..Len(log) : log[i].mode = "inplace"

\* The frame that called frame k of thread t.
CallerOf(t, k) == stack[t][k - 1]
\* The calls made by callbacks that thread t is running.
NestedCalls(t) == {k \in 2..Len(stack[t]) : stack[t][k].op # "callback"}

\* C14: a thread that executes a callback does not hold the mutex, and the
\* frame that invoked the callback had unlocked before (the loop of a
\* completion or line 125 of addCallback); a call a callback makes on the cell
\* can therefore always proceed once the mutex is free, the holder of the mutex
\* can always take a step, a wait made by a callback never blocks, and an
\* addCallback made by a callback calls its callback in place on that thread
\* and never appends it.
C14_CallbacksOutsideMutex ==
  \A t \in Threads :
    /\ \A k \in 1..Len(stack[t]) : stack[t][k].op = "callback" =>
         /\ k > 1 /\ completed
         /\ \/ CallerOf(t, k).op \in CompleteOps /\ CallerOf(t, k).pc = "loop"
            \/ CallerOf(t, k).op = "addCallback" /\ CallerOf(t, k).pc = "return"
         /\ k = Len(stack[t]) => mutex # t
    /\ mutex = t => (stack[t] # <<>> /\ Top(t).op \in LockingOps /\ ENABLED Run(t))
    /\ (stack[t] # <<>> /\ Top(t).op = "callback" /\ mutex = 0) =>
         ENABLED (callbackCall(t) \/ callbackReturn(t))
    /\ \A k \in NestedCalls(t) :
         /\ stack[t][k].op \in WaitOps \cup {"addCallback"}
         /\ stack[t][k].op \in WaitOps => stack[t][k].pc \in {"pred", "ret"}
         /\ stack[t][k].op = "addCallback" =>
              /\ stack[t][k].pc \in {"check", "call", "return"}
              /\ Occurs(stack[t][k].cb.id, callbacks) = 0
              /\ Occurs(stack[t][k].cb.id, drained) = 0
    /\ (ret[t].op = "addCallback" /\ ret[t].depth > 1) =>
         /\ ret[t].b /\ Count(ret[t].cb.id) = 1
         /\ Occurs(ret[t].cb.id, callbacks) = 0 /\ Occurs(ret[t].cb.id, drained) = 0
         /\ \A i \in Entries(ret[t].cb.id) : log[i].thread = t /\ log[i].mode = "inplace"

\* C14 witness: a callback of a completion's batch called addCallback, whose
\* callback is running in place on the same thread; nobody holds the mutex.
C14_Witness ==
  \E t \in Threads :
    /\ Len(stack[t]) = 4 /\ mutex = 0
    /\ stack[t][1].op \in CompleteOps /\ stack[t][3].op = "addCallback"
    /\ stack[t][4].op = "callback"

\* C15 as stated: a completion that passed its check has sent one broadcast
\* when it exits.
C15_OneBroadcastPerCompletion ==
  \A p \in Threads : CompletionExited(p) => broadcasts = 1

\* The completion of p returned to its caller (no exception left it).
CompletionReturned(p) ==
  ret[p].op \in CompleteOps /\ ret[p].depth = 1 /\ ret[p].kind = "returned"

\* C15 as amended: notify_all is called only as the last statement of a
\* markCompleted or setError that passed its check, after every callback of the
\* batch has been invoked and has returned; a completion that returns has sent
\* exactly one broadcast, one left by an exception of a callback has sent none,
\* and nothing else sends one.
C15_BroadcastAfterBatch ==
  /\ [](broadcasts <= 1)
  /\ [](\A p \in Threads :
          /\ CompletionReturned(p) => (broadcasts = 1 /\ Batch = drained)
          /\ (CompletionExited(p) /\ ~CompletionReturned(p)) => broadcasts = 0
          /\ (stack[p] # <<>> /\ \E op \in CompleteOps : PastCheck(p, op)) =>
               broadcasts = 0)
  /\ [][broadcasts' # broadcasts =>
          \E t \in Threads, op \in CompleteOps :
            /\ At(t, op, "loop") /\ Len(stack[t]) = 1 /\ PastCheck(t, op)
            /\ Top(t).i > Len(Top(t).cbs) /\ Batch = drained
            /\ \A u \in Threads : \A f \in FramesOf(u) :
                 ~(f.op = "callback" /\ Occurs(f.cb.id, drained) > 0)
            /\ broadcasts' = broadcasts + 1
            /\ stack'[t] = <<>> /\ CompletionReturned(t)'
            /\ \A u \in Threads \ {t} :
                 (stack[u] # <<>> /\ Top(u).pc = "blocked") => Top(u)'.pc = "relock"]_vars

\* C15 witness: a completion called its queued callback and then sent the one
\* broadcast, which woke a blocked waiter.
C15_Witness ==
  /\ broadcasts = 1 /\ Len(drained) = 1 /\ Batch = drained
  /\ \E p, u \in Threads :
       /\ CompletionReturned(p)
       /\ stack[u] # <<>> /\ Top(u).op \in WaitOps /\ Top(u).pc = "relock"

\* Frame k of thread t is a callback that addCallback called in place.
InPlaceFrame(t, k) ==
  /\ k \in 2..Len(stack[t])
  /\ stack[t][k].op = "callback" /\ CallerOf(t, k).op = "addCallback"
\* The completion of thread p has invoked a callback of its batch and has not
\* yet seen the last one return.
MidBatch(p) ==
  /\ stack[p] # <<>> /\ stack[p][1].op \in CompleteOps /\ stack[p][1].pc = "loop"
  /\ stack[p][1].i > 1
  /\ Len(stack[p]) > 1 \/ stack[p][1].i <= Len(stack[p][1].cbs)

\* C16 as stated: while another thread's batch is between its first invocation
\* and the return of its last callback, no callback runs in place.
C16_InPlaceNotDuringBatch ==
  \A t, p \in Threads :
    (t # p /\ MidBatch(p)) => ~\E k \in 1..Len(stack[t]) : InPlaceFrame(t, k)

\* C16 as amended: a callback called in place was never in the queue, so it is
\* no part of the batch and the completion path never invokes it; it runs on
\* its registering thread, and only after the completing thread has set
\* completed_, swapped the queue and released the mutex; the batch consists
\* of the swapped callbacks only, invoked by the completing thread.
C16_InPlaceOutsideBatch ==
  /\ \A t \in Threads : \A k \in 1..Len(stack[t]) :
       InPlaceFrame(t, k) =>
         /\ completed
         /\ stack[t][k].cb = CallerOf(t, k).cb /\ CallerOf(t, k).pc = "return"
         /\ Occurs(stack[t][k].cb.id, drained) = 0
         /\ Occurs(stack[t][k].cb.id, callbacks) = 0
         /\ \A i \in Entries(stack[t][k].cb.id) :
              log[i].thread = t /\ log[i].mode = "inplace"
         /\ \A p \in Threads, op \in CompleteOps :
              (stack[p] # <<>> /\ PastCheck(p, op)) =>
                stack[p][1].pc \in {"end", "loop"}
  /\ \A i \in 1..Len(log) :
       /\ log[i].mode = "batch" =>
            /\ Occurs(log[i].cb.id, drained) = 1
            /\ \E op \in CompleteOps : PastCheck(log[i].thread, op)
       /\ log[i].mode = "inplace" => Occurs(log[i].cb.id, drained) = 0

\* C16 witness: a callback runs in place on its registering thread while a
\* callback of the batch is executing on the completing thread.
C16_Witness ==
  \E t, p \in Threads :
    /\ t # p /\ MidBatch(p) /\ Len(stack[p]) = 2
    /\ Len(stack[t]) = 2 /\ InPlaceFrame(t, 2)

\* An exception of a callback of its batch left the completion of thread p.
Aborted(p) == CompletionExited(p) /\ ret[p].kind = "CallbackError"

\* C17: a callback of the batch that throws ends the completion that invoked
\* it: the exception leaves markCompleted or setError, the callbacks queued
\* after the thrower are never invoked and no broadcast is sent; the cell stays
\* completed with the outcome of that completion and an empty queue, a wait
\* that tests the predicate afterwards does not block, and a completion that
\* reaches its check afterwards fails without changing the cell.
C17_ThrowAbortsBatch ==
  /\ [](\A i \in 1..Len(log) :
          (log[i].mode = "batch" /\ log[i].cb.kind = "throw") =>
            LET p == log[i].thread
            IN \/ /\ Len(stack[p]) = 2 /\ stack[p][2].op = "callback"
                  /\ stack[p][2].cb = log[i].cb
               \/ Aborted(p) /\ ret[p].cb = log[i].cb)
  /\ [](\A p \in Threads : Aborted(p) =>
          /\ ret[p].op = "callback" /\ ret[p].cb.kind = "throw"
          /\ Batch # <<>> /\ IsPrefix(Batch, drained)
          /\ Batch[Len(Batch)] = ret[p].cb
          /\ \A k \in 1..Len(drained) :
               /\ k < Len(Batch) => drained[k].kind = "ret"
               /\ k > Len(Batch) => Count(drained[k].id) = 0
               /\ k <= Len(Batch) => Count(drained[k].id) = 1
          /\ broadcasts = 0
          /\ completed /\ callbacks = <<>>
          /\ IF ret[p].top = "markCompleted"
             THEN value = ret[p].arg /\ error = NoError
             ELSE value = initValue /\ error = FutureError(ret[p].arg)
          /\ \A t \in Threads \ {p} :
               (stack[t] = <<>> /\ ret[t].op \in CompleteOps) => ret[t].kind = "DoubleComplete")
  /\ [][\A t \in Threads :
          ((\E p \in Threads : Aborted(p)) /\ stack[t] # <<>> /\ stack'[t] # stack[t]) =>
            /\ (Top(t).op \in WaitOps /\ Top(t).pc = "pred") =>
                 (stack'[t] # <<>> /\ Top(t)'.pc = "ret")
            /\ AtCheck(t) =>
                 /\ stack'[t] = <<>> /\ ret'[t].kind = "DoubleComplete"
                 /\ UNCHANGED <<completed, value, error, callbacks>>]_vars

\* C17 witness: of two queued callbacks the first threw, the exception left
\* the completion and the second was not invoked; a wait has returned and
\* another completion has failed as a double completion.
C17_Witness ==
  \E p, t, u \in Threads :
    /\ Aborted(p) /\ Len(drained) = 2 /\ Len(Batch) = 1 /\ broadcasts = 0
    /\ ret[t].op \in WaitOps /\ ret[t].kind \in {"returned", "AsyncFailure"}
    /\ ret[u].op \in CompleteOps /\ ret[u].kind = "DoubleComplete"

\* C18 as stated: in every state, error_ present implies completed_.
C18_ErrorImpliesCompleted == error.present => completed

\* The call of thread t returns in this step and is a call of op.
Returns(t, op) == ret'[t] # ret[t] /\ ret'[t].op = op /\ ret'[t].kind = "returned"

\* C18 as amended: error_ is present with completed_ false only while a
\* setError holds the mutex between lines 89 and 90, so never when the mutex is
\* free; hasError() and error() take the mutex and therefore return false and
\* absent whenever completed_ is false, a true or present result was read
\* from a completed cell, and a completed() that returns after a hasError()
\* returned true returns true.
C18_ErrorSeenOnlyCompleted ==
  /\ []((error.present /\ ~completed) =>
          \E p \in Threads : At(p, "setError", "flag") /\ mutex = p)
  /\ []((error.present /\ mutex = 0) => completed)
  /\ [](\A t \in Threads :
          /\ (ret[t].op = "hasError" /\ ret[t].b) => (completed /\ error.present)
          /\ (ret[t].op = "error" /\ ret[t].err.present) =>
               (completed /\ ret[t].err = error))
  /\ [][\A t \in Threads :
          /\ Returns(t, "hasError") =>
               /\ ret'[t].b = error.present
               /\ ~completed => ~ret'[t].b
          /\ Returns(t, "error") =>
               /\ ret'[t].err = error
               /\ ~completed => ret'[t].err = NoError
          /\ (Returns(t, "completed")
                /\ \E u \in Threads : ret[u].op = "hasError" /\ ret[u].b) =>
               ret'[t].b]_vars

\* C18 witness: while a setError is still in its loop, a hasError() returned
\* true and a completed() called after it returned true.
C18_Witness ==
  \E p, t, u \in Threads :
    /\ stack[p] # <<>> /\ stack[p][1].op = "setError"
    /\ ret[t].op = "hasError" /\ ret[t].b
    /\ t < u /\ ret[u].op = "completed" /\ ret[u].b

\* The threads whose markCompleted or setError passed the TORCH_CHECK.
Winners == {p \in Threads : \E op \in CompleteOps : PastCheck(p, op)}
\* The markCompleted or setError of thread q failed its TORCH_CHECK.
Lost(q) ==
  /\ stack[q] = <<>> /\ ret[q].top \in CompleteOps
  /\ ret[q].kind = "DoubleComplete" /\ ret[q].depth = 1

\* C19: of the markCompleted and setError calls that threads make on an
\* empty cell, at most one passes its check, and one has passed when another
\* fails; the outcome stored is that of the call that passed, which alone
\* swaps the queue and invokes the queued callbacks; a call that fails leaves
\* value_, error_, completed_ and the queue as they are and invokes nothing.
C19_OneCompletionWins ==
  /\ [](Cardinality(Winners) <= 1)
  /\ [](~ctorValue =>
          /\ \A q \in Threads : Lost(q) => \E p \in Winners : p # q /\ completed
          /\ \A p \in Winners : \A op \in CompleteOps : Published(p, op) =>
               IF op = "markCompleted"
               THEN value = ArgOf(p) /\ error = NoError
               ELSE value = initValue /\ error = FutureError(ArgOf(p))
          /\ \A i \in 1..Len(log) : log[i].mode = "batch" => log[i].thread \in Winners
          /\ drained # <<>> => Winners # {})
  /\ [][\A q \in Threads :
          (stack[q] # <<>> /\ stack'[q] = <<>> /\ Lost(q)') =>
            /\ completed /\ AtCheck(q)
            /\ UNCHANGED <<completed, value, error, callbacks>>
            /\ UNCHANGED <<log, drained, broadcasts, rfEnds>>]_vars

\* C19 witness: while the markCompleted of one thread is still in its loop
\* over a queued callback, the setError of another thread has failed.
C19_Witness ==
  \E p, q \in Threads :
    /\ ~ctorValue /\ p # q
    /\ stack[p] # <<>> /\ stack[p][1].op = "markCompleted" /\ stack[p][1].pc = "loop"
    /\ Len(drained) = 1
    /\ Lost(q) /\ ret[q].op = "setError"
====
